---- MODULE Spec2Model ----
(***************************************************************************)
(* The RCS try-on webhook server (index.js): the per-user session table,   *)
(* the media download and its acceptance policy, the inbound-webhook       *)
(* handler with its generation and delivery steps.  One action is one      *)
(* stretch of the handler between two awaits; turns of several inbound     *)
(* events interleave at the awaits and share userSessions.                 *)
(*                                                                         *)
(* JavaScript objects have identity: a session is a cell of `heap`, and    *)
(* userSessions[u] and a turn's local `session` are references (indices)   *)
(* into it.  Time is the reading of Date.now(), in abstract units.         *)
(***************************************************************************)
EXTENDS Integers, Sequences, FiniteSets, TLC

---------------------------------------------------------------------------
(* Bounds of the model *)
MaxTurns == 3
MaxActive == 2
MaxClock == 2
IngestTurns == 2
RaceTurns == 4
StaleClock == 4

Turns == 1..(IF RaceTurns > MaxTurns THEN RaceTurns ELSE MaxTurns)

(* Program constants (index.js:17-18), in abstract units of bytes / time *)
IMAGE_MAX_BYTES == 2
SESSION_TTL_MS == 1

Users == {"u1"}
NoUser == "<undefined>"

---------------------------------------------------------------------------
(* Values *)

\* a slot that is undefined.  A stored image is { data, mime, ts }: the model
\* names the data by the order of the stores (id) and leaves out ts, which
\* the program never reads.
NoImage == [id |-> 0, mime |-> ""]

\* req.body text: absent (null) or a string, kept as its sequence of words
NullText == [present |-> FALSE, words |-> <<>>]
Str(ws) == [present |-> TRUE, words |-> ws]

\* The inbound events of the handler's runs: text and presence of a media URL
Event(text, mediaUrl) == [text |-> text, mediaUrl |-> mediaUrl]

Events ==
  { Event(NullText, FALSE), Event(NullText, TRUE),
    Event(Str(<<"Selfie">>), TRUE), Event(Str(<<"dress">>), TRUE) }

AllEvents ==
  Events \cup
  { Event(Str(<<>>), FALSE), Event(Str(<<>>), TRUE),
    Event(Str(<<"hello">>), FALSE), Event(Str(<<"selfie">>), TRUE),
    Event(Str(<<"selfie">>), FALSE), Event(Str(<<"hello">>), TRUE),
    Event(Str(<<"my", "Dress", "on", "ME">>), TRUE) }

RaceEvents == { Event(NullText, TRUE) }

\* The texts that decide the classification: every word of both
\* vocabularies, in some spelling, alone or together, and words that only
\* contain one
ClassifyTexts ==
  { NullText, Str(<<>>), Str(<<"hello">>), Str(<<"selfie">>), Str(<<"Selfie">>),
    Str(<<"ME">>), Str(<<"face">>), Str(<<"portrait">>), Str(<<"clothing">>),
    Str(<<"Dress">>), Str(<<"shirt">>), Str(<<"outfit">>), Str(<<"attire">>),
    Str(<<"wear">>), Str(<<"my", "Dress", "on", "ME">>),
    Str(<<"two", "selfies">>), Str(<<"homewear">>) }

ClassifyEvents ==
  { Event(text, mediaUrl) : text \in ClassifyTexts, mediaUrl \in BOOLEAN }

\* String.prototype.toLowerCase on the words the model uses
LowerWord(w) ==
  CASE w = "Selfie" -> "selfie"
    [] w = "ME" -> "me"
    [] w = "Dress" -> "dress"
    [] OTHER -> w

toLowerCase(ws) == [i \in DOMAIN ws |-> LowerWord(ws[i])]

\* JavaScript truthiness of the extracted text (null and "" are falsy)
Truthy(text) == text.present /\ text.words # <<>>

\* /\b(selfie|me|face|portrait)\b/.test(lower)
SelfieRe(lower) ==
  \E i \in DOMAIN lower : lower[i] \in {"selfie", "me", "face", "portrait"}

\* /\b(clothing|dress|shirt|outfit|attire|wear)\b/.test(lower)
ClothingRe(lower) ==
  \E i \in DOMAIN lower :
    lower[i] \in {"clothing", "dress", "shirt", "outfit", "attire", "wear"}

---------------------------------------------------------------------------
(* Session store: getSession / resetSession / updateSession.               *)
(* A store value st is [heap, userSessions]; 0 is "no entry".              *)

FreshSession(t) ==
  [selfie |-> NoImage, clothing |-> NoImage, inProgress |-> FALSE,
   lastUpdated |-> t]

\* userSessions[userPhone] = { lastUpdated: now(), inProgress: false }
NewSession(st, u, t) ==
  [heap |-> Append(st.heap, FreshSession(t)),
   userSessions |-> [st.userSessions EXCEPT ![u] = Len(st.heap) + 1]]

Expired(s, t) == t - s.lastUpdated > SESSION_TTL_MS

\* a lookup that never expires a session
getSessionNoExpiry(st, u, t) ==
  IF st.userSessions[u] = 0 THEN NewSession(st, u, t) ELSE st

getSession(st, u, t) ==
  IF st.userSessions[u] = 0 THEN NewSession(st, u, t)
  ELSE IF Expired(st.heap[st.userSessions[u]], t) THEN NewSession(st, u, t)
  ELSE st

\* a reset that clears the slots of the session in place
resetSessionInPlace(st, u, t) ==
  IF st.userSessions[u] = 0 THEN NewSession(st, u, t)
  ELSE [st EXCEPT !.heap[st.userSessions[u]] =
          [@ EXCEPT !.selfie = NoImage, !.clothing = NoImage, !.lastUpdated = t]]

resetSession(st, u, t) == NewSession(st, u, t)

\* Object.assign(s, patch): patch is a function on some of the field names
Assign(s, patch) ==
  [f \in DOMAIN s |-> IF f \in DOMAIN patch THEN patch[f] ELSE s[f]]

updateSession(st, u, patch, t) ==
  LET st1 == getSession(st, u, t)
      r == st1.userSessions[u]
  IN [st1 EXCEPT !.heap[r] =
        [Assign(st1.heap[r], patch) EXCEPT !.lastUpdated = t]]

---------------------------------------------------------------------------
(* Image fetcher: head + downloadImageAsBase64IfSupported.                 *)
(* A response of the media host is [h, g]: h is the HEAD response          *)
(* (null when the HEAD request throws), g the GET response (threw = TRUE   *)
(* when fetch itself rejects) with the length of the body it carries.      *)

NullHead == [null |-> TRUE, status |-> 0, ct |-> "", len |-> 0]
HeadResp(status, ct, clen) == [null |-> FALSE, status |-> status, ct |-> ct, len |-> clen]
GetResp(status, ct, blen) == [threw |-> FALSE, status |-> status, ct |-> ct, blen |-> blen]
GetThrows == [threw |-> TRUE, status |-> 0, ct |-> "", blen |-> 0]

\* toLowerCase on the content types the model uses
LowerCT(ct) ==
  CASE ct = "IMAGE/PNG" -> "image/png"
    [] ct = "Image/WebP" -> "image/webp"
    [] OTHER -> ct

\* ct.includes(pat), on the content types the model uses
Includes(ct, pat) ==
  \/ ct = pat
  \/ ct = "image/jpeg; charset=binary" /\ pat = "image/jpeg"

\* res.ok
Ok(status) == status >= 200 /\ status <= 299

Failure(code, ct, size) ==
  [ok |-> FALSE, code |-> code, mime |-> "", size |-> size, contentType |-> ct]

\* a length taken from the retrieved body alone
bufLength(resp) == resp.g.blen

\* line 107: const len = headLen || buf.length
len(resp) ==
  LET headLen == IF resp.h.null THEN 0 ELSE resp.h.len
  IN IF headLen # 0 THEN headLen ELSE resp.g.blen

\* a fetch that prefers the retrieval's own content type to the probe's
downloadOwnTypeFirst(resp) ==
  LET h == resp.h
      res == resp.g
      headCT == IF h.null THEN "" ELSE LowerCT(h.ct)
      headStatus == IF h.null THEN 0 ELSE h.status
      ct == IF LowerCT(res.ct) # "" THEN LowerCT(res.ct) ELSE headCT
      isPng == Includes(ct, "image/png")
      isJpeg == Includes(ct, "image/jpeg") \/ Includes(ct, "image/jpg")
  IN IF headStatus = 401 \/ headStatus = 403
       THEN Failure("FETCH_FORBIDDEN", "", 0)
     ELSE IF res.threw THEN Failure("", "", 0)
     ELSE IF ~Ok(res.status)
       THEN Failure(IF res.status = 401 \/ res.status = 403
                      THEN "FETCH_FORBIDDEN" ELSE "FETCH_FAILED", "", 0)
     ELSE IF len(resp) > IMAGE_MAX_BYTES THEN Failure("TOO_LARGE", "", len(resp))
     ELSE IF ~(isPng \/ isJpeg)
       THEN Failure(IF Includes(ct, "image/webp") THEN "UNSUPPORTED_WEBP"
                    ELSE IF Includes(ct, "image/heic") \/ Includes(ct, "image/heif")
                      THEN "UNSUPPORTED_HEIC"
                    ELSE "UNSUPPORTED_TYPE", ct, 0)
     ELSE [ok |-> TRUE, code |-> "",
           mime |-> IF isPng THEN "image/png" ELSE "image/jpeg",
           size |-> len(resp), contentType |-> ct]

\* a fetch that checks the type before the size
downloadTypeFirst(resp) ==
  LET h == resp.h
      res == resp.g
      headCT == IF h.null THEN "" ELSE LowerCT(h.ct)
      headStatus == IF h.null THEN 0 ELSE h.status
      ct == IF headCT # "" THEN headCT ELSE LowerCT(res.ct)
      isPng == Includes(ct, "image/png")
      isJpeg == Includes(ct, "image/jpeg") \/ Includes(ct, "image/jpg")
  IN IF headStatus = 401 \/ headStatus = 403
       THEN Failure("FETCH_FORBIDDEN", "", 0)
     ELSE IF res.threw THEN Failure("", "", 0)
     ELSE IF ~Ok(res.status)
       THEN Failure(IF res.status = 401 \/ res.status = 403
                      THEN "FETCH_FORBIDDEN" ELSE "FETCH_FAILED", "", 0)
     ELSE IF ~(isPng \/ isJpeg)
       THEN Failure(IF Includes(ct, "image/webp") THEN "UNSUPPORTED_WEBP"
                    ELSE IF Includes(ct, "image/heic") \/ Includes(ct, "image/heif")
                      THEN "UNSUPPORTED_HEIC"
                    ELSE "UNSUPPORTED_TYPE", ct, 0)
     ELSE IF len(resp) > IMAGE_MAX_BYTES THEN Failure("TOO_LARGE", "", len(resp))
     ELSE [ok |-> TRUE, code |-> "",
           mime |-> IF isPng THEN "image/png" ELSE "image/jpeg",
           size |-> len(resp), contentType |-> ct]

downloadImageAsBase64IfSupported(resp) ==
  LET h == resp.h
      res == resp.g
      headCT == IF h.null THEN "" ELSE LowerCT(h.ct)
      headStatus == IF h.null THEN 0 ELSE h.status
      ct == IF headCT # "" THEN headCT ELSE LowerCT(res.ct)
      isPng == Includes(ct, "image/png")
      isJpeg == Includes(ct, "image/jpeg") \/ Includes(ct, "image/jpg")
  IN IF headStatus = 401 \/ headStatus = 403
       THEN Failure("FETCH_FORBIDDEN", "", 0)
     ELSE IF res.threw THEN Failure("", "", 0)
     ELSE IF ~Ok(res.status)
       THEN Failure(IF res.status = 401 \/ res.status = 403
                      THEN "FETCH_FORBIDDEN" ELSE "FETCH_FAILED", "", 0)
     ELSE IF len(resp) > IMAGE_MAX_BYTES THEN Failure("TOO_LARGE", "", len(resp))
     ELSE IF ~(isPng \/ isJpeg)
       THEN Failure(IF Includes(ct, "image/webp") THEN "UNSUPPORTED_WEBP"
                    ELSE IF Includes(ct, "image/heic") \/ Includes(ct, "image/heif")
                      THEN "UNSUPPORTED_HEIC"
                    ELSE "UNSUPPORTED_TYPE", ct, 0)
     ELSE [ok |-> TRUE, code |-> "",
           mime |-> IF isPng THEN "image/png" ELSE "image/jpeg",
           size |-> len(resp), contentType |-> ct]

\* the tip of the download catch block, by e.code
Tip(code) ==
  CASE code = "FETCH_FORBIDDEN" -> "The image link was not accessible. Please resend the image."
    [] code = "TOO_LARGE" -> "That image is too large. Please send a smaller PNG/JPEG."
    [] code = "UNSUPPORTED_HEIC" -> "That looks like an iPhone HEIC. Please resend as PNG or JPEG."
    [] code = "UNSUPPORTED_WEBP" -> "That looks like a WEBP. Please resend as PNG or JPEG."
    [] OTHER -> "Please resend the image as PNG or JPEG."

\* The responses of the media host: every HEAD outcome with every GET outcome
HeadTypes ==
  { "", "image/png", "image/jpeg", "Image/WebP", "image/heic",
    "application/pdf" }

GetTypes ==
  { "", "IMAGE/PNG", "image/jpg", "image/jpeg; charset=binary",
    "image/webp", "image/heif" }

Lengths == {0, IMAGE_MAX_BYTES, IMAGE_MAX_BYTES + 1}

AllResponses ==
  { [h |-> h, g |-> g] :
      h \in {NullHead} \cup
             { HeadResp(st, ct, n) :
                 st \in {200, 403}, ct \in HeadTypes, n \in Lengths },
      g \in {GetThrows} \cup
             { GetResp(st, ct, n) :
                 st \in {200, 401, 500}, ct \in GetTypes, n \in Lengths \ {0} } }

\* The responses that decide the session's state: an accepted PNG, an
\* accepted JPEG of a host without HEAD, a refused WEBP
Responses ==
  { [h |-> HeadResp(200, "image/png", 1), g |-> GetResp(200, "image/png", 1)],
    [h |-> NullHead, g |-> GetResp(200, "image/jpeg", 2)],
    [h |-> HeadResp(200, "Image/WebP", 1), g |-> GetResp(200, "image/webp", 1)] }

RaceResponses ==
  { [h |-> HeadResp(200, "image/png", 1), g |-> GetResp(200, "image/png", 1)],
    [h |-> HeadResp(200, "Image/WebP", 1), g |-> GetResp(200, "image/webp", 1)] }

---------------------------------------------------------------------------
(* State *)

VARIABLES
  heap,          \* the session objects ever created, by reference
  userSessions,  \* userSessions[userPhone]: reference of the user's session, 0 = none
  clock,         \* Date.now()
  turns,         \* the inbound-webhook turns: position and locals of each
  nimg,          \* number of images stored so far (names the stored images)
  files,         \* artifacts written under PHOTOS_PATH: [name, turn]
  returned       \* the turn that returned in the last step, with its locals; else none

vars == <<heap, userSessions, clock, turns, nimg, files, returned>>

NoResp == [h |-> NullHead, g |-> GetResp(0, "", 0)]
NoFile == [user |-> NoUser, at |-> 0]

IdleTurn ==
  [pc |-> "idle", userPhone |-> NoUser, text |-> NullText, mediaUrl |-> FALSE,
   session |-> 0, imageType |-> "", resp |-> NoResp, code |-> "", stored |-> 0,
   selfie |-> NoImage, clothing |-> NoImage, nStream |-> 0, nFull |-> 0,
   stream |-> "", full |-> "", outFile |-> NoFile, sends |-> <<>>,
   out |-> "", status |-> 0]

Store == [heap |-> heap, userSessions |-> userSessions]

Active == {k \in Turns : turns[k].pc \notin {"idle", "done"}}

---------------------------------------------------------------------------
(* The inbound handler, app.post("/webhooks/inbound"), piece by piece.     *)
(* Each piece maps a store and a turn to the store and turn it leaves.     *)

\* a classifier that tries the clothing vocabulary first
DecideTypeClothingFirst(text, mediaUrl, session) ==
  LET byText ==
        IF Truthy(text)
          THEN IF ClothingRe(toLowerCase(text.words)) THEN "clothing"
               ELSE IF SelfieRe(toLowerCase(text.words)) THEN "selfie"
               ELSE ""
          ELSE ""
  IN IF byText = "" /\ mediaUrl
       THEN IF session.selfie # NoImage THEN "clothing" ELSE "selfie"
       ELSE byText

\* lines 244-252: decide the slot of the event
DecideType(text, mediaUrl, session) ==
  LET byText ==
        IF Truthy(text)
          THEN IF SelfieRe(toLowerCase(text.words)) THEN "selfie"
               ELSE IF ClothingRe(toLowerCase(text.words)) THEN "clothing"
               ELSE ""
          ELSE ""
  IN IF byText = "" /\ mediaUrl
       THEN IF session.selfie # NoImage THEN "clothing" ELSE "selfie"
       ELSE byText

\* a store that keeps the clothing when a new selfie arrives
StoreMediaKeepsClothing(st, u, imageType, img, t) ==
  updateSession(st, u, imageType :> img, t)

\* lines 259-264: store the downloaded image in its slot
\* a store that decides the slot again from the session it writes to
StoreMediaReclassified(st, u, imageType, img, t) ==
  LET cur == getSession(st, u, t)
      slot == IF cur.heap[cur.userSessions[u]].selfie # NoImage
                THEN "clothing" ELSE imageType
      st1 == IF slot = "selfie"
               THEN updateSession(st, u, "clothing" :> NoImage, t)
               ELSE st
  IN updateSession(st1, u, slot :> img, t)

StoreMedia(st, u, imageType, img, t) ==
  LET st1 == IF imageType = "selfie"
               THEN updateSession(st, u, "clothing" :> NoImage, t)
               ELSE st
  IN updateSession(st1, u, imageType :> img, t)

\* line 286, on the turn's own session reference
Ready(session) ==
  session.selfie # NoImage /\ session.clothing # NoImage /\ ~session.inProgress

\* a request that takes its clothing from the user's current session
StartGenerationMixed(st, tr, t) ==
  LET st1 == updateSession(st, tr.userPhone, "inProgress" :> TRUE, t)
      session == st1.heap[tr.session]
      current == st1.heap[st1.userSessions[tr.userPhone]]
  IN [st |-> st1,
      tr |-> [tr EXCEPT !.pc = "stream",
                        !.selfie = session.selfie,
                        !.clothing = current.clothing,
                        !.nStream = @ + 1]]

\* lines 290-306: lock, build the request, call generateContentStream
StartGeneration(st, tr, t) ==
  LET st1 == updateSession(st, tr.userPhone, "inProgress" :> TRUE, t)
      session == st1.heap[tr.session]
  IN [st |-> st1,
      tr |-> [tr EXCEPT !.pc = "stream",
                        !.selfie = session.selfie,
                        !.clothing = session.clothing,
                        !.nStream = @ + 1]]

\* lines 410-420: the hint, up to the send
Guidance(st, tr, t) ==
  LET st1 == getSession(st, tr.userPhone, t)
      s == st1.heap[st1.userSessions[tr.userPhone]]
      hint == IF s.selfie # NoImage
                THEN "Now send a clothing image (PNG/JPEG)."
                ELSE "First send a selfie (PNG/JPEG)."
  IN [st |-> st1,
      tr |-> [tr EXCEPT !.pc = "guide",
                        !.out = IF tr.mediaUrl \/ Truthy(tr.text) THEN hint
                                ELSE "Send a selfie (PNG/JPEG), then a clothing image."]]

\* lines 286-287 and what follows, up to the next await
Proceed(st, tr, t) ==
  IF Ready(st.heap[tr.session]) THEN StartGeneration(st, tr, t)
  ELSE Guidance(st, tr, t)

\* an end of generation that unlocks without the reset
FinishGenerationNoReset(st, tr, t) ==
  LET st2 == getSession(st, tr.userPhone, t)
      r == st2.userSessions[tr.userPhone]
  IN [st |-> [st2 EXCEPT !.heap[r].inProgress = FALSE],
      tr |-> [tr EXCEPT !.pc = "done", !.status = 200]]

\* lines 387-388 / 399-400 and the finally block 402-406
FinishGeneration(st, tr, t) ==
  LET st1 == resetSession(st, tr.userPhone, t)
      st2 == getSession(st1, tr.userPhone, t)
      r == st2.userSessions[tr.userPhone]
  IN [st |-> [st2 EXCEPT !.heap[r].inProgress = FALSE],
      tr |-> [tr EXCEPT !.pc = "done", !.status = 200]]

\* img / e of lines 257-282 are out of scope after the try statement: the
\* turn keeps them, and the image it stored, until its next step
EndTry(tr) == [tr EXCEPT !.resp = NoResp, !.code = "", !.stored = 0]

\* lines 324-329: a produced image: name the artifact, start writing it
BeginSave(tr, t) ==
  [tr EXCEPT !.pc = "save", !.outFile = [user |-> tr.userPhone, at |-> t]]

\* no image, and the delivery is started all the same
BeginDeliveryAnyway(tr) == [tr EXCEPT !.pc = "tier1", !.out = "preview"]

\* lines 389-397: no image: send the apology
BeginApology(tr) ==
  [tr EXCEPT !.pc = "apology",
             !.out = "I couldn't render a preview. Use a clear selfie and clothing photo (PNG/JPEG)."]

\* messageType of the message each send of the handler builds
MessageType(kind) ==
  CASE kind = "rich" -> "rcs_image"
    [] kind = "image" -> "image"
    [] OTHER -> "text"

\* vonage.messages.send returned (ok) or threw: the turn's record of it
Sent(tr, kind, ok) ==
  [tr EXCEPT !.sends = Append(@, [kind |-> kind, type |-> MessageType(kind),
                                   text |-> tr.out, ok |-> ok]),
             !.out = ""]

\* a stream without an image is a failure at once
AfterStreamNoFallback(tr, out, t) ==
  LET tr1 == [EndTry(tr) EXCEPT !.stream = out]
  IN IF out = "image" THEN BeginSave(tr1, t) ELSE BeginApology(tr1)

\* lines 306-322: after the stream ended: out is "image" (a fragment carried
\* inline data), "none" (it ended without one) or "throw"
AfterStream(tr, out, t) ==
  LET tr1 == [EndTry(tr) EXCEPT !.stream = out]
  IN CASE out = "image" -> BeginSave(tr1, t)
       [] out = "none" -> [tr1 EXCEPT !.pc = "full", !.nFull = @ + 1]
       [] OTHER -> BeginApology(tr1)

\* a generateContent that throws past the handler: no acknowledgement
AfterFullUncaught(tr, out, t) ==
  LET tr1 == [tr EXCEPT !.full = out]
  IN IF out = "image" THEN BeginSave(tr1, t)
     ELSE IF out = "none" THEN BeginApology(tr1)
     ELSE [tr1 EXCEPT !.pc = "rejected"]

\* lines 312-322: after generateContent returned ("image" / "none") or threw
AfterFull(tr, out, t) ==
  LET tr1 == [tr EXCEPT !.full = out]
  IN IF out = "image" THEN BeginSave(tr1, t) ELSE BeginApology(tr1)

\* a chain that gives up after the plain image send
AfterTierNoLink(st, tr, ok, t) ==
  LET kind == IF tr.pc = "tier1" THEN "rich" ELSE "image"
      tr1 == Sent(tr, kind, ok)
  IN IF ok \/ tr.pc # "tier1" THEN FinishGeneration(st, tr1, t)
     ELSE [st |-> st, tr |-> [tr1 EXCEPT !.pc = "tier2", !.out = "preview"]]

\* lines 339-388, 402-406: a delivery tier's send returned (ok) or threw
AfterTier(st, tr, ok, t) ==
  LET kind == CASE tr.pc = "tier1" -> "rich"
                [] tr.pc = "tier2" -> "image"
                [] OTHER -> "link"
      tr1 == Sent(tr, kind, ok)
  IN IF ok \/ tr.pc = "tier3" THEN FinishGeneration(st, tr1, t)
     ELSE IF tr.pc = "tier1"
       THEN [st |-> st, tr |-> [tr1 EXCEPT !.pc = "tier2", !.out = "preview"]]
     ELSE [st |-> st,
           tr |-> [tr1 EXCEPT !.pc = "tier3",
                              !.out = "Your preview is ready: <url>"]]

NoReturn == [turn |-> 0, tr |-> IdleTurn]

\* a handler that has returned keeps no locals
DoneTurn == [IdleTurn EXCEPT !.pc = "done", !.status = 200]

\* what a turn leaves behind when it returns: the acknowledgement, the
\* messages it sent, the backend calls it made and the images it passed
\* to them, the artifact it named
Outcome(tr) ==
  [IdleTurn EXCEPT !.pc = "done", !.userPhone = tr.userPhone,
                   !.selfie = tr.selfie, !.clothing = tr.clothing,
                   !.nStream = tr.nStream, !.nFull = tr.nFull,
                   !.stream = tr.stream, !.full = tr.full,
                   !.outFile = tr.outFile, !.sends = tr.sends,
                   !.status = tr.status]

Return(k, tr) ==
  /\ turns' = [turns EXCEPT ![k] = DoneTurn]
  /\ returned' = [turn |-> k, tr |-> Outcome(tr)]

\* A session object that neither userSessions nor a running turn refers to
\* is unreachable: the model keeps its cell and forgets its contents.
Reachable(st, k, tr) ==
  {st.userSessions[u] : u \in Users}
    \cup {turns[j].session : j \in Active \ {k}}
    \cup (IF tr.pc = "done" THEN {} ELSE {tr.session})

Commit(r, k) ==
  \E c \in {r} :
    /\ heap' = [i \in DOMAIN c.st.heap |->
                  IF i \in Reachable(c.st, k, c.tr) THEN c.st.heap[i]
                  ELSE FreshSession(0)]
    /\ userSessions' = c.st.userSessions
    /\ IF c.tr.pc = "done" THEN Return(k, c.tr)
       ELSE turns' = [turns EXCEPT ![k] = c.tr] /\ returned' = NoReturn

---------------------------------------------------------------------------
(* Actions: one per stretch of the handler between awaits *)

Init ==
  /\ heap = <<>>
  /\ userSessions = [u \in Users |-> 0]
  /\ clock = 0
  /\ turns = [k \in Turns |-> IdleTurn]
  /\ nimg = 0
  /\ files = {}
  /\ returned = NoReturn

\* turns are numbered in the order of their arrival
CanArrive(k) ==
  /\ turns[k].pc = "idle"
  /\ IF k = 1 THEN TRUE ELSE turns[k - 1].pc # "idle"

\* lines 232-238: an event without a sender is acknowledged at once
ArriveNoUser(k) ==
  /\ CanArrive(k)
  /\ Return(k, DoneTurn)
  /\ UNCHANGED <<heap, userSessions, clock, nimg, files>>

\* lines 232-257 (to the download) or, without media to store, to 286-306 / 410-420
Arrive(k, u, text, mediaUrl) ==
  /\ CanArrive(k)
  /\ LET st1 == getSession(Store, u, clock)
         ref == st1.userSessions[u]
         imageType == DecideType(text, mediaUrl, st1.heap[ref])
         tr == [IdleTurn EXCEPT !.userPhone = u, !.text = text,
                                !.mediaUrl = mediaUrl, !.session = ref,
                                !.imageType = imageType]
     IN IF mediaUrl /\ imageType # ""
          THEN Commit([st |-> st1, tr |-> [tr EXCEPT !.pc = "fetch"]], k)
          ELSE Commit(Proceed(st1, tr, clock), k)
  /\ UNCHANGED <<clock, nimg, files>>

\* lines 257-265 then 286-306 / 410-420: the download succeeded
FetchOk(k, resp) ==
  LET tr == turns[k]
      img == downloadImageAsBase64IfSupported(resp)
  IN /\ tr.pc = "fetch"
     /\ img.ok
     /\ LET asset == [id |-> nimg + 1, mime |-> img.mime]
        IN \E st1 \in {StoreMedia(Store, tr.userPhone, tr.imageType, asset, clock)} :
             Commit(Proceed(st1, [tr EXCEPT !.resp = resp, !.stored = nimg + 1], clock), k)
     /\ nimg' = nimg + 1
     /\ UNCHANGED <<clock, files>>

\* lines 257, 266-280: the download failed: send the tip
FetchFail(k, resp) ==
  LET tr == turns[k]
      img == downloadImageAsBase64IfSupported(resp)
  IN /\ tr.pc = "fetch"
     /\ ~img.ok
     /\ turns' = [turns EXCEPT ![k] =
          [tr EXCEPT !.pc = "tip", !.resp = resp, !.code = img.code,
                     !.out = Tip(img.code)]]
     /\ UNCHANGED <<heap, userSessions, clock, nimg, files>>
     /\ returned' = NoReturn

\* lines 274-281 then 286-306 / 410-420: the tip was sent or its send failed
TipDone(k, ok) ==
  /\ turns[k].pc = "tip"
  /\ Commit(Proceed(Store, EndTry(Sent(turns[k], "tip", ok)), clock), k)
  /\ UNCHANGED <<clock, nimg, files>>

\* lines 306-312 / 320-329 / 389-397: generateContentStream and the stream end
StreamDone(k, out) ==
  /\ turns[k].pc = "stream"
  /\ turns' = [turns EXCEPT ![k] = AfterStream(turns[k], out, clock)]
  /\ UNCHANGED <<heap, userSessions, clock, nimg, files>>
  /\ returned' = NoReturn

\* lines 312-329 / 389-397: generateContent returned or threw
FullDone(k, out) ==
  /\ turns[k].pc = "full"
  /\ turns' = [turns EXCEPT ![k] = AfterFull(turns[k], out, clock)]
  /\ UNCHANGED <<heap, userSessions, clock, nimg, files>>
  /\ returned' = NoReturn

\* a failed write that ends the generation with the apology
SaveDoneOrApology(k, ok) ==
  /\ turns[k].pc = "save"
  /\ files' = IF ok THEN files \cup {[name |-> turns[k].outFile, turn |-> k]}
              ELSE files
  /\ turns' = [turns EXCEPT ![k] =
       IF ok THEN [@ EXCEPT !.pc = "tier1", !.out = "preview"]
       ELSE BeginApology(@)]
  /\ UNCHANGED <<heap, userSessions, clock, nimg>>
  /\ returned' = NoReturn

\* lines 329-348: mkdir + writeFile done or failed; send the RCSImage
SaveDone(k, ok) ==
  /\ turns[k].pc = "save"
  /\ files' = IF ok THEN files \cup {[name |-> turns[k].outFile, turn |-> k]}
              ELSE files
  /\ turns' = [turns EXCEPT ![k] = [@ EXCEPT !.pc = "tier1", !.out = "preview"]]
  /\ UNCHANGED <<heap, userSessions, clock, nimg>>
  /\ returned' = NoReturn

\* lines 341-354: the RCSImage send
Tier1Done(k, ok) ==
  /\ turns[k].pc = "tier1"
  /\ Commit(AfterTier(Store, turns[k], ok, clock), k)
  /\ UNCHANGED <<clock, nimg, files>>

\* lines 355-370: the plain image send
Tier2Done(k, ok) ==
  /\ turns[k].pc = "tier2"
  /\ Commit(AfterTier(Store, turns[k], ok, clock), k)
  /\ UNCHANGED <<clock, nimg, files>>

\* lines 372-388, 402-406: the text send with the link
Tier3Done(k, ok) ==
  /\ turns[k].pc = "tier3"
  /\ Commit(AfterTier(Store, turns[k], ok, clock), k)
  /\ UNCHANGED <<clock, nimg, files>>

\* lines 390-406: the apology send
ApologyDone(k, ok) ==
  /\ turns[k].pc = "apology"
  /\ Commit(FinishGeneration(Store, Sent(turns[k], "apology", ok), clock), k)
  /\ UNCHANGED <<clock, nimg, files>>

\* lines 413-422: the hint send, then the acknowledgement
GuideDone(k, ok) ==
  /\ turns[k].pc = "guide"
  /\ Return(k, [Sent(turns[k], "hint", ok) EXCEPT !.pc = "done", !.status = 200])
  /\ UNCHANGED <<heap, userSessions, clock, nimg, files>>

\* time passes
Tick ==
  /\ clock < MaxClock
  /\ clock' = clock + 1
  /\ UNCHANGED <<heap, userSessions, turns, nimg, files>>
  /\ returned' = NoReturn

\* The handler's steps, for the turns T with at most `active` of them
\* running at a time, the events E and the media-host responses R
NextOver(T, active, E, R) ==
  \/ Tick
  \/ \E k \in T : Cardinality(Active) < active /\ ArriveNoUser(k)
  \/ \E k \in T, u \in Users, ev \in E :
       Cardinality(Active) < active /\ Arrive(k, u, ev.text, ev.mediaUrl)
  \/ \E k \in T : turns[k].pc = "fetch" /\ \E resp \in R : FetchOk(k, resp)
  \/ \E k \in T : turns[k].pc = "fetch" /\ \E resp \in R : FetchFail(k, resp)
  \/ \E k \in T, ok \in BOOLEAN : TipDone(k, ok)
  \/ \E k \in T, out \in {"image", "none", "throw"} : StreamDone(k, out)
  \/ \E k \in T, out \in {"image", "none", "throw"} : FullDone(k, out)
  \/ \E k \in T, ok \in BOOLEAN : SaveDone(k, ok)
  \/ \E k \in T, ok \in BOOLEAN : Tier1Done(k, ok)
  \/ \E k \in T, ok \in BOOLEAN : Tier2Done(k, ok)
  \/ \E k \in T, ok \in BOOLEAN : Tier3Done(k, ok)
  \/ \E k \in T, ok \in BOOLEAN : ApologyDone(k, ok)
  \/ \E k \in T, ok \in BOOLEAN : GuideDone(k, ok)

\* Overlapping turns of one user, on the events and responses that decide
\* the session's state
Next == NextOver(1..MaxTurns, MaxActive, Events, Responses)

Spec == Init /\ [][Next]_vars

\* One turn after the other, on every kind of event and response
NextIngest == NextOver(1..IngestTurns, 1, AllEvents, AllResponses)

SpecIngest == Init /\ [][NextIngest]_vars

\* Many short turns of one user
NextRace == NextOver(1..RaceTurns, MaxActive, RaceEvents, RaceResponses)

SpecRace == Init /\ [][NextRace]_vars

\* the clock readings after MaxClock, up to StaleClock
LateTick ==
  /\ clock >= MaxClock /\ clock < StaleClock
  /\ clock' = clock + 1
  /\ UNCHANGED <<heap, userSessions, turns, nimg, files>>
  /\ returned' = NoReturn

\* Turns that outlive two expiries of their user's session
StaleEvents ==
  { Event(NullText, TRUE), Event(Str(<<"Selfie">>), TRUE), Event(Str(<<"dress">>), TRUE) }

NextStale ==
  \/ NextOver(1..MaxTurns, MaxActive, StaleEvents, RaceResponses)
  \/ LateTick

SpecStale == Init /\ [][NextStale]_vars

\* One turn after the other, on every kind of text
NextClassify == NextOver(1..IngestTurns, 1, ClassifyEvents, Responses)

SpecClassify == Init /\ [][NextClassify]_vars

\* The external call that turn k awaits returns or fails
Settle(k, R) ==
  \/ turns[k].pc = "fetch" /\ \E resp \in R : FetchOk(k, resp)
  \/ turns[k].pc = "fetch" /\ \E resp \in R : FetchFail(k, resp)
  \/ \E ok \in BOOLEAN : TipDone(k, ok)
  \/ \E out \in {"image", "none", "throw"} : StreamDone(k, out)
  \/ \E out \in {"image", "none", "throw"} : FullDone(k, out)
  \/ \E ok \in BOOLEAN : SaveDone(k, ok)
  \/ \E ok \in BOOLEAN : Tier1Done(k, ok)
  \/ \E ok \in BOOLEAN : Tier2Done(k, ok)
  \/ \E ok \in BOOLEAN : Tier3Done(k, ok)
  \/ \E ok \in BOOLEAN : ApologyDone(k, ok)
  \/ \E ok \in BOOLEAN : GuideDone(k, ok)

\* The responses of Responses and the ways a download fails before its
\* checks: a forbidden probe, a retrieval that throws, a retrieval refused
LiveResponses ==
  Responses \cup
    { [h |-> HeadResp(403, "", 0), g |-> GetResp(200, "IMAGE/PNG", 1)],
      [h |-> NullHead, g |-> GetThrows],
      [h |-> NullHead, g |-> GetResp(500, "", 1)] }

\* Overlapping turns, every external call of which returns or fails in the end
NextLive == NextOver(1..IngestTurns, MaxActive, Events, LiveResponses)

SpecLive ==
  /\ Init /\ [][NextLive]_vars
  /\ \A k \in 1..IngestTurns : WF_vars(Settle(k, LiveResponses))

---------------------------------------------------------------------------
(* Properties *)

Table(u) == heap[userSessions[u]]

IsEmpty(s) == s.selfie = NoImage /\ s.clothing = NoImage /\ ~s.inProgress

\* a turn between acquiring the inProgress lock (line 290) and the reset
Generating(tr) ==
  tr.pc \in {"stream", "full", "save", "tier1", "tier2", "tier3", "apology"}

GeneratingFor(u) == {k \in Turns : Generating(turns[k]) /\ turns[k].userPhone = u}

\* C1: at most one generation is in flight for a user at any moment, in
\* every interleaving of the user's turns.
C1_OneGenerationPerUser ==
  \A u \in Users : Cardinality(GeneratingFor(u)) <= 1

\* the turn k takes the step
Step(k) == turns'[k] # turns[k]

\* the step is turn k's store of the image it downloaded (lines 259-264)
Stored(k) == turns[k].pc = "fetch" /\ Step(k) /\ nimg' = nimg + 1

\* C2, the store: right after a turn stored a selfie, the clothing slot of
\* the user's session is empty and the selfie slot holds the new image.
C2_SelfieStore ==
  \A k \in Turns :
    Stored(k) /\ turns[k].imageType = "selfie" =>
      LET s == heap'[userSessions'[turns[k].userPhone]]
      IN s.clothing = NoImage /\ s.selfie.id = nimg'

\* C2, at rest: no session holds a clothing image stored before its selfie.
C2_NoStalePair ==
  \A i \in DOMAIN heap :
    heap[i].selfie # NoImage /\ heap[i].clothing # NoImage =>
      heap[i].clothing.id > heap[i].selfie.id

\* C2: whenever a turn stores a selfie the clothing slot of the user's
\* session is empty right after the store, whatever clothing was stored
\* before; a clothing image stored earlier is never present next to a
\* selfie stored later.
C2_SelfieClearsClothing == []C2_NoStalePair /\ [][C2_SelfieStore]_vars

\* C2 witness: a generation runs on the pair the session held, and a turn
\* has since stored a selfie into that same session: its clothing is gone.
C2_Witness ==
  \E u \in Users, k \in Turns, g \in Turns :
    /\ turns[k].pc = "guide" /\ turns[k].userPhone = u
    /\ turns[k].imageType = "selfie"
    /\ turns[k].stored = Table(u).selfie.id
    /\ Table(u).clothing = NoImage
    /\ Generating(turns[g]) /\ turns[g].session = userSessions[u]
    /\ turns[g].clothing # NoImage
    /\ turns[g].clothing.id < turns[k].stored

\* a turn that ran a generation returned in the last step
GenerationEnded == returned.turn # 0 /\ returned.tr.nStream > 0

\* C3: when a turn that started a generation returns, the user's session in
\* the table is EMPTY, whatever the outcome and whatever other turns stored
\* while the generation ran.
C3_EndsEmpty == GenerationEnded => IsEmpty(Table(returned.tr.userPhone))

\* C3 witness: a generation whose three delivery tiers all failed has just
\* ended, and another turn stored an image after the generation's clothing.
C3_Witness ==
  /\ GenerationEnded
  /\ Len(returned.tr.sends) = 3 /\ ~returned.tr.sends[3].ok
  /\ IsEmpty(Table(returned.tr.userPhone))
  /\ \E j \in Turns :
       /\ turns[j].pc = "guide" /\ turns[j].userPhone = returned.tr.userPhone
       /\ turns[j].stored > returned.tr.clothing.id

\* the user's table entry is older than the TTL
Stale(u) == userSessions[u] # 0 /\ Expired(Table(u), clock)

\* the step of turn k looks the user's session up in the table: the
\* arrival (line 241), the store (260-262), the step after the tip (290 / 410)
Accesses(k) ==
  \/ turns[k].pc = "idle" /\ Step(k) /\ turns'[k].pc # "done"
  \/ Stored(k)
  \/ turns[k].pc = "tip" /\ Step(k)

\* C4, the step: the table entry after a stale access is a new session,
\* empty at an arrival, and later in a turn holding nothing but what the
\* accessing step itself wrote.
C4_StaleAccess ==
  \A k \in Turns :
    LET u == turns'[k].userPhone
        r == userSessions'[u]
        s == heap'[r]
        mine(img) == img = NoImage \/ (img.id = nimg' /\ nimg' > nimg)
    IN Accesses(k) /\ Stale(u) =>
         /\ r > Len(heap)
         /\ s.lastUpdated = clock
         /\ mine(s.selfie) /\ mine(s.clothing)
         /\ turns[k].pc = "idle" => turns'[k].session = r /\ s = FreshSession(clock)
         /\ turns'[k].pc = "guide" /\ ~Stored(k) => IsEmpty(s)

\* C4: an access made more than the TTL after the session's last update
\* returns a fresh empty session and replaces the stale one in the table;
\* the stale session's slots are never returned by that access.
C4_TTLExpiry == [][C4_StaleAccess]_vars

\* C4 witness: the only image ever stored went into the first session; the
\* table now holds a second, empty one, obtained by a turn that arrived
\* after the TTL and therefore classified its unlabeled image as a selfie.
C4_Witness ==
  /\ nimg = 1 /\ Len(heap) = 2 /\ clock > SESSION_TTL_MS
  /\ \E u \in Users, k \in Turns :
       /\ userSessions[u] = 2 /\ heap[2] = FreshSession(clock)
       /\ turns[k].pc = "fetch" /\ turns[k].userPhone = u
       /\ turns[k].session = 2
       /\ turns[k].text = NullText /\ turns[k].imageType = "selfie"

\* the probe (HEAD) of the response declares a content-length above the maximum
ProbeTooLarge(resp) == ~resp.h.null /\ resp.h.len > IMAGE_MAX_BYTES

\* C5 as stated: a fetch whose probe declares a content-length above the
\* maximum fails with TOO_LARGE and stores nothing.
C5_ProbeTooLargeIsTooLarge ==
  \A k \in Turns :
    ProbeTooLarge(turns[k].resp) =>
      turns[k].pc = "tip" /\ turns[k].code = "TOO_LARGE" /\ turns[k].stored = 0

\* the failure the checks before the size check give, "TOO_LARGE" if none
CodeOfOversized(resp) ==
  IF resp.h.status \in {401, 403} THEN "FETCH_FORBIDDEN"
  ELSE IF resp.g.threw THEN ""
  ELSE IF ~Ok(resp.g.status)
    THEN IF resp.g.status \in {401, 403} THEN "FETCH_FORBIDDEN" ELSE "FETCH_FAILED"
  ELSE "TOO_LARGE"

\* C5, the outcome: the oversized fetch fails with the first applicable code
C5_Refused ==
  \A k \in Turns :
    ProbeTooLarge(turns[k].resp) =>
      /\ turns[k].pc = "tip" /\ turns[k].stored = 0
      /\ turns[k].code = CodeOfOversized(turns[k].resp)

\* C5, the step: the failing fetch leaves the sessions as they were
C5_NothingWritten ==
  \A k \in Turns :
    turns[k].pc = "fetch" /\ ProbeTooLarge(turns'[k].resp) =>
      UNCHANGED <<heap, userSessions, nimg>>

\* C5, amended: a fetch whose probe declares a content-length above the
\* maximum fails, for every declared content-type, and its step writes no
\* session slot; the failure is TOO_LARGE unless the probe's status is 401
\* or 403 or the retrieval itself fails, which are reported first.
C5_OversizedNeverStored == []C5_Refused /\ [][C5_NothingWritten]_vars

\* C5 witness: a PNG whose probe declares too many bytes, though the body
\* retrieved is small enough, was refused as TOO_LARGE.
C5_Witness ==
  \E k \in Turns :
    /\ turns[k].pc = "tip" /\ turns[k].code = "TOO_LARGE"
    /\ ProbeTooLarge(turns[k].resp)
    /\ turns[k].resp.h.ct = "image/png"
    /\ turns[k].resp.g.blen <= IMAGE_MAX_BYTES

\* the turns that hold locals: the running ones and the one that just returned
Records == {turns[k] : k \in Turns} \cup {returned.tr}

\* C6: a generation makes one streaming call; it makes one non-streaming
\* call exactly when the stream ended without an image, none when the
\* stream yielded an image (or threw); failure is declared only after the
\* stream threw or the one non-streaming call gave no image.
C6_OneFallbackCall ==
  \A tr \in Records :
    /\ tr.nStream <= 1 /\ tr.nFull <= 1
    /\ tr.nFull = 1 => tr.nStream = 1
    /\ tr.stream = "none" => tr.nFull = 1
    /\ tr.stream \in {"image", "throw"} => tr.nFull = 0
    /\ tr.stream # "" => tr.nStream = 1
    /\ tr.full # "" => tr.nFull = 1 /\ tr.stream = "none"
    /\ tr.pc = "apology" =>
         \/ tr.stream = "throw"
         \/ tr.stream = "none" /\ tr.nFull = 1 /\ tr.full \in {"none", "throw"}
    /\ tr.pc = "full" => tr.stream = "none" /\ tr.nFull = 1 /\ tr.full = ""

\* C6 witness: a generation whose stream carried no image and whose one
\* non-streaming call gave none either has returned.
C6_Witness ==
  /\ GenerationEnded
  /\ returned.tr.stream = "none" /\ returned.tr.full = "none"
  /\ returned.tr.nStream = 1 /\ returned.tr.nFull = 1

\* the delivery sends of a turn, in the order it made them
Delivery(tr) == SelectSeq(tr.sends, LAMBDA m : m.kind \in {"rich", "image", "link"})

\* the sends of a turn of one kind
SendsOf(tr, kind) == SelectSeq(tr.sends, LAMBDA m : m.kind = kind)

\* C7: after an image was produced the delivery sends are, in this order,
\* the rich image message, the plain image message, the text with the URL;
\* a tier is sent exactly when every earlier one failed, so at most three
\* are sent and only the last can have succeeded; when all three fail the
\* turn still resets the session and acknowledges with 200.
C7_OrderedFallback ==
  /\ \A tr \in Records :
       LET d == Delivery(tr)
       IN /\ Len(d) <= 3
          /\ \A i \in DOMAIN d :
               /\ d[i].kind = <<"rich", "image", "link">>[i]
               /\ d[i].type = <<"rcs_image", "image", "text">>[i]
               /\ i < Len(d) => ~d[i].ok
          /\ Len(d) = 3 => d[3].text = "Your preview is ready: <url>"
          /\ d # <<>> => tr.outFile # NoFile
          /\ tr.pc = "tier1" => d = <<>>
          /\ tr.pc = "tier2" => Len(d) = 1 /\ ~d[1].ok
          /\ tr.pc = "tier3" => Len(d) = 2 /\ ~d[2].ok
          /\ tr.pc = "done" /\ tr.outFile # NoFile =>
               /\ d # <<>>
               /\ d[Len(d)].ok \/ Len(d) = 3
               /\ tr.status = 200
  /\ GenerationEnded /\ returned.tr.outFile # NoFile =>
       IsEmpty(Table(returned.tr.userPhone))

\* C7 witness: all three tiers were sent, in order, and all three failed;
\* the turn returned 200 and left the session empty.
C7_Witness ==
  /\ GenerationEnded /\ returned.tr.status = 200
  /\ Len(Delivery(returned.tr)) = 3
  /\ \A i \in 1..3 : ~Delivery(returned.tr)[i].ok
  /\ Delivery(returned.tr)[3].kind = "link"
  /\ IsEmpty(Table(returned.tr.userPhone))

\* the generation of the turn ended without an image
NoImageProduced(tr) == tr.stream = "throw" \/ tr.full \in {"none", "throw"}

\* C8: a generation that ends without an image (no image from either call,
\* or a call threw) writes no artifact, sends no delivery tier, sends the
\* apology text exactly once, resets the session to EMPTY and returns 200.
C8_NoImageApology ==
  /\ \A k \in Turns :
       NoImageProduced(turns[k]) =>
         /\ turns[k].pc = "apology" /\ turns[k].outFile = NoFile
         /\ Delivery(turns[k]) = <<>> /\ SendsOf(turns[k], "apology") = <<>>
         /\ \A f \in files : f.turn # k
  /\ returned.turn # 0 /\ NoImageProduced(returned.tr) =>
       /\ returned.tr.outFile = NoFile
       /\ \A f \in files : f.turn # returned.turn
       /\ Delivery(returned.tr) = <<>>
       /\ Len(SendsOf(returned.tr, "apology")) = 1
       /\ SendsOf(returned.tr, "apology")[1].type = "text"
       /\ returned.tr.sends[Len(returned.tr.sends)].kind = "apology"
       /\ returned.tr.status = 200
       /\ IsEmpty(Table(returned.tr.userPhone))
  /\ \A tr \in Records : SendsOf(tr, "apology") # <<>> => NoImageProduced(tr)

\* C8 witness: the non-streaming call threw after an empty stream; the one
\* apology send failed too, and the turn returned with the session empty.
C8_Witness ==
  /\ GenerationEnded
  /\ returned.tr.stream = "none" /\ returned.tr.full = "throw"
  /\ Len(SendsOf(returned.tr, "apology")) = 1
  /\ ~SendsOf(returned.tr, "apology")[1].ok
  /\ returned.tr.outFile = NoFile
  /\ IsEmpty(Table(returned.tr.userPhone))

\* what an access at time t observes of the user's slots and lock
View(st, u, t) ==
  LET s == st.heap[st.userSessions[u]]
  IN IF Expired(s, t) THEN <<NoImage, NoImage, FALSE>>
     ELSE <<s.selfie, s.clothing, s.inProgress>>

\* the turn's download failed: it is about to send, or has sent, the tip
TipSent(tr) == SendsOf(tr, "tip") # <<>>

\* C9, the message: the text under way after a failed download is the tip
\* of the failure kind, and a turn that sent a tip returns 200.
C9_Tip ==
  /\ \A k \in Turns :
       turns[k].pc = "tip" =>
         /\ turns[k].code \in
              {"FETCH_FORBIDDEN", "FETCH_FAILED", "TOO_LARGE", "UNSUPPORTED_WEBP",
               "UNSUPPORTED_HEIC", "UNSUPPORTED_TYPE", ""}
         /\ turns[k].out = Tip(turns[k].code)
         /\ turns[k].code = "UNSUPPORTED_WEBP" =>
              turns[k].out = "That looks like a WEBP. Please resend as PNG or JPEG."
         /\ turns[k].stored = 0
  /\ returned.turn # 0 /\ TipSent(returned.tr) =>
       /\ returned.tr.status = 200
       /\ returned.tr.sends[1].kind = "tip" /\ returned.tr.sends[1].type = "text"

\* C9, the steps: every step of a turn whose download failed leaves the
\* slots and the lock of the user's session as they were, and the step
\* after the tip goes on to the hint whether or not the tip was sent.
C9_Step ==
  \A k \in Turns :
    LET u == turns[k].userPhone
    IN /\ turns[k].pc = "fetch" /\ Step(k) /\ turns'[k].pc = "tip" =>
            View(Store', u, clock) = View(Store, u, clock)
       /\ turns[k].pc = "tip" /\ Step(k) =>
            /\ View(Store', u, clock) = View(Store, u, clock)
            /\ turns'[k].pc = "guide"
       /\ turns[k].pc = "guide" /\ TipSent(turns[k]) /\ Step(k) =>
            /\ View(Store', u, clock) = View(Store, u, clock)
            /\ returned'.turn = k

\* C9: for every ingestion failure kind the failing turn leaves the selfie
\* slot, the clothing slot and inProgress of the user's session as they
\* were, sends the guidance text of the failure kind, and goes on to its
\* normal end also when that send fails.
C9_FailureLeavesSession == []C9_Tip /\ [][C9_Step]_vars

\* the session holds a selfie and nothing else (HAS_SELFIE)
HasSelfieOnly(s) == s.selfie # NoImage /\ s.clothing = NoImage /\ ~s.inProgress

\* C10, first event: from an empty session, the store of an accepted JPEG
\* sent with the text "selfie" leaves the session with that selfie only,
\* and the turn goes on to the hint, not to a generation.
C10_SelfieStep ==
  \A k \in Turns :
    LET u == turns[k].userPhone
    IN /\ Stored(k) /\ turns[k].text = Str(<<"selfie">>)
       /\ IsEmpty(Table(u))
       /\ downloadImageAsBase64IfSupported(turns'[k].resp).mime = "image/jpeg"
       => /\ HasSelfieOnly(heap'[userSessions'[u]])
          /\ heap'[userSessions'[u]].selfie = [id |-> nimg', mime |-> "image/jpeg"]
          /\ turns'[k].pc = "guide" /\ turns'[k].nStream = 0

\* C10, second event: an accepted PNG without text that arrived while the
\* session held a selfie only is stored as clothing, and its turn takes the
\* lock and invokes the generation on that selfie and this clothing.
C10_ClothingStep ==
  \A k \in Turns :
    LET u == turns[k].userPhone
        was == heap[turns[k].session]
    IN /\ Stored(k) /\ turns[k].text = NullText
       /\ turns[k].imageType = "clothing" /\ HasSelfieOnly(was)
       /\ downloadImageAsBase64IfSupported(turns'[k].resp).mime = "image/png"
       => /\ turns'[k].pc = "stream" /\ turns'[k].nStream = 1
          /\ turns'[k].selfie = was.selfie
          /\ turns'[k].clothing = [id |-> nimg', mime |-> "image/png"]
          /\ heap'[userSessions'[u]].inProgress

\* C10, the end: a turn that produced the image and whose first delivery
\* tier succeeded sent exactly one message and left the session EMPTY.
C10_End ==
  /\ GenerationEnded /\ ~TipSent(returned.tr)
  /\ Delivery(returned.tr) # <<>> /\ Delivery(returned.tr)[1].ok
  => /\ Len(returned.tr.sends) = 1
     /\ returned.tr.nStream = 1
     /\ IsEmpty(Table(returned.tr.userPhone))

\* C10: with the turns of a user run one after the other from an empty
\* session, "selfie" + JPEG leaves a selfie only and no generation; a
\* following PNG without text is stored as clothing and its turn invokes
\* the generation once; with the image produced and the first tier
\* delivered, that turn sent one message and the session is EMPTY.
C10_Scenario == []C10_End /\ [][C10_SelfieStep /\ C10_ClothingStep]_vars

\* the spellings of a vocabulary word among the words of the model's texts
Spellings(w) ==
  CASE w = "selfie" -> {"selfie", "Selfie"}
    [] w = "me" -> {"me", "ME"}
    [] w = "dress" -> {"dress", "Dress"}
    [] OTHER -> {w}

\* the text contains, as one of its words, a word of the vocabulary
HasWordOf(text, vocabulary) ==
  text.present /\ \E i \in DOMAIN text.words, w \in vocabulary :
                    text.words[i] \in Spellings(w)

\* the step is turn k's arrival with a sender (line 241 onwards)
Arrived(k) == turns[k].pc = "idle" /\ Step(k) /\ turns'[k].pc # "done"

\* C11, the rule: the slot of an event is selfie if its text has a selfie word, also
\* when it has a clothing word too; else clothing if it has a clothing
\* word; else, with media, clothing if the session holds a selfie at the
\* arrival and selfie if not; else none.
C11_Slot ==
  \A k \in Turns :
    Arrived(k) =>
      LET tr == turns'[k]
          session == heap'[tr.session]
      IN tr.imageType =
           IF HasWordOf(tr.text, {"selfie", "me", "face", "portrait"}) THEN "selfie"
           ELSE IF HasWordOf(tr.text, {"clothing", "dress", "shirt", "outfit",
                                       "attire", "wear"}) THEN "clothing"
           ELSE IF tr.mediaUrl
             THEN IF session.selfie # NoImage THEN "clothing" ELSE "selfie"
           ELSE ""

\* C11: every arrival classifies its event by that rule.
C11_Classifier == [][C11_Slot]_vars

\* C11 witness: a text with a word of each vocabulary, the selfie word in
\* capitals, arrived while the session held a selfie, and is a selfie.
C11_Witness ==
  \E k \in Turns :
    /\ turns[k].pc = "fetch" /\ turns[k].imageType = "selfie"
    /\ turns[k].text = Str(<<"my", "Dress", "on", "ME">>)
    /\ heap[turns[k].session].selfie # NoImage

\* the text of line 419 for an event that said nothing
GenericPrompt == "Send a selfie (PNG/JPEG), then a clothing image."

\* the text has no word of either vocabulary (it may be absent or empty)
Unrecognized(text) ==
  /\ ~HasWordOf(text, {"selfie", "me", "face", "portrait"})
  /\ ~HasWordOf(text, {"clothing", "dress", "shirt", "outfit", "attire", "wear"})

\* C12, the step: an event without media and without a recognized text
\* fills no slot and is answered with the generic prompt.
C12_Step ==
  \A k \in Turns :
    Arrived(k) /\ ~turns'[k].mediaUrl /\ Unrecognized(turns'[k].text) =>
      /\ turns'[k].imageType = ""
      /\ turns'[k].pc = "guide" /\ turns'[k].out = GenericPrompt
      /\ nimg' = nimg
      /\ View(Store', turns'[k].userPhone, clock) =
           View(getSession(Store, turns'[k].userPhone, clock), turns'[k].userPhone, clock)

\* C12: every event without media whose text, absent, empty or present,
\* matches neither vocabulary fills no slot and gets the generic prompt,
\* whatever the session holds.
C12_GenericPrompt == [][C12_Step]_vars

\* C13, the store: a store that fills the second slot of the user's
\* session while no generation runs for the user takes the lock and calls
\* the backend in the same step.
C13_Step ==
  \A k \in Turns :
    LET u == turns[k].userPhone
        s == heap'[userSessions'[u]]
    IN Stored(k) /\ GeneratingFor(u) = {}
       /\ s.selfie # NoImage /\ s.clothing # NoImage
       => turns'[k].pc = "stream" /\ s.inProgress

\* C13, at rest: the table holds no session with both slots filled and
\* inProgress = false.
C13_NoReadyAtRest ==
  \A u \in Users : userSessions[u] # 0 => ~Ready(Table(u))

\* C13: whenever a store makes both slots of the user's session filled
\* while no generation is in flight, the storing turn locks and starts the
\* generation before it suspends; so no session with both slots filled
\* and inProgress = false is in the table at a suspension point.
C13_ReadyStartsGeneration == []C13_NoReadyAtRest /\ [][C13_Step]_vars

\* C14, the steps: a step of a turn that is under way, taken while the
\* table still holds the session the turn obtained at its start, leaves
\* that session in the table (unless the step is the turn's own reset);
\* the image it stores and the lock it takes are in that session, and a
\* store that fills its second slot starts the generation.
C14_Step ==
  \A k \in Turns :
    LET u == turns[k].userPhone
        r == turns[k].session
    IN turns[k].pc \notin {"idle", "done"} /\ Step(k) /\ userSessions[u] = r
       /\ turns'[k].pc # "done"
       => /\ userSessions'[u] = r
          /\ Stored(k) => heap'[r][turns[k].imageType].id = nimg'
          /\ Stored(k) /\ heap'[r].selfie # NoImage /\ heap'[r].clothing # NoImage
               /\ ~heap[r].inProgress => turns'[k].pc = "stream"
          /\ turns[k].pc \in {"fetch", "tip"} /\ turns'[k].pc = "stream" =>
               heap'[r].inProgress

\* C14: TTL expiry affects only the lookups of later turns: what a turn
\* writes after it obtained its session lands in that session, and its
\* readiness check sees it, however long the turn was suspended.
C14_TTLSparesRunningTurns == [][C14_Step]_vars

\* the states of the conversation state machine
Both(s) == s.selfie # NoImage /\ s.clothing # NoImage
IsReady(s) == Both(s) /\ ~s.inProgress
IsGenerating(s) == Both(s) /\ s.inProgress
InStateMachine(s) == IsEmpty(s) \/ HasSelfieOnly(s) \/ IsReady(s) \/ IsGenerating(s)

\* C15, at rest: the session of every user is EMPTY, HAS_SELFIE, READY or
\* GENERATING.
C15_States ==
  \A u \in Users : userSessions[u] # 0 => InStateMachine(Table(u))

\* C15, the fill: a store finds the session EMPTY or HAS_SELFIE and leaves
\* it HAS_SELFIE or with both slots filled.
C15_Fill ==
  \A k \in Turns :
    LET u == turns[k].userPhone
        s == heap'[userSessions'[u]]
    IN Stored(k) =>
         /\ IsEmpty(Table(u)) \/ HasSelfieOnly(Table(u))
         /\ HasSelfieOnly(s) \/ Both(s)

\* C15: every user's session is always in one of the states EMPTY,
\* HAS_SELFIE, READY, GENERATING, and a slot fill only moves EMPTY or
\* HAS_SELFIE to HAS_SELFIE or READY: no session holds clothing without
\* a selfie.
C15_StateMachine == []C15_States /\ [][C15_Fill]_vars

\* the user's session in a store
SessionOf(st, u) == st.heap[st.userSessions[u]]

\* C16: from every session state, resetSession called twice in a row
\* leaves what one call leaves: no selfie, no clothing, inProgress = false,
\* the two differing at most in lastUpdated.
C16_ResetIdempotent ==
  \A u \in Users, later \in {clock, clock + 1} :
    LET once == SessionOf(resetSession(Store, u, clock), u)
        twice == SessionOf(resetSession(resetSession(Store, u, clock), u, later), u)
    IN /\ IsEmpty(once) /\ IsEmpty(twice)
       /\ [twice EXCEPT !.lastUpdated = 0] = [once EXCEPT !.lastUpdated = 0]
       /\ once.lastUpdated = clock /\ twice.lastUpdated = later

\* C16 witness: a session that is locked with both slots filled, on which
\* two resets in a row leave an empty session.
C16_Witness ==
  \E u \in Users :
    /\ userSessions[u] # 0 /\ IsGenerating(Table(u))
    /\ IsEmpty(SessionOf(resetSession(resetSession(Store, u, clock), u, clock), u))

\* the artifact names in use: those written, and those of the turns that
\* are delivering, each with the turn (the generation) that named it
Named ==
  files \cup {[name |-> turns[k].outFile, turn |-> k] :
                k \in {j \in Turns : turns[j].outFile # NoFile}}

\* C17: no two generations of a user name their artifact alike: the name,
\* built from the user and the instant, is not used again by a later or
\* a concurrent generation.
C17_UniqueFilenames ==
  \A f, g \in Named : f.name = g.name => f.turn = g.turn

\* C18, the end: every turn that has arrived returns with status 200.
C18_Acknowledged ==
  \A k \in 1..IngestTurns :
    turns[k].pc \notin {"idle", "done"} ~>
      (returned.turn = k /\ returned.tr.status = 200)

\* C18, the lock: when a turn has returned, and it was generating or no
\* generation of the user is under way, the user's session is not inProgress.
C18_Unlocked ==
  returned.turn # 0 /\ returned.tr.userPhone \in Users
  /\ (returned.tr.nStream > 0 \/ GeneratingFor(returned.tr.userPhone) = {})
  => ~Table(returned.tr.userPhone).inProgress

\* C18: if every external call returns or fails, every turn ends with the
\* acknowledgement 200, whatever fails on its way, and no turn leaves
\* inProgress set once it has ended.
C18_EveryTurnEnds == C18_Acknowledged /\ []C18_Unlocked

\* C18 witness: a generation whose stream gave no image, whose second call
\* threw and whose apology failed to send has returned 200 and left the
\* session unlocked.
C18_Witness ==
  /\ returned.turn # 0 /\ returned.tr.status = 200
  /\ returned.tr.stream = "none" /\ returned.tr.full = "throw"
  /\ \E i \in 1..Len(returned.tr.sends) :
       returned.tr.sends[i].kind = "apology" /\ ~returned.tr.sends[i].ok
  /\ ~Table(returned.tr.userPhone).inProgress

\* the content type and the length the acceptance checks of a fetch use
\* (lines 106-107): the probe's when it gives one, else the retrieval's
EffectiveType(resp) ==
  IF ~resp.h.null /\ resp.h.ct # "" THEN LowerCT(resp.h.ct) ELSE LowerCT(resp.g.ct)

EffectiveLength(resp) ==
  IF ~resp.h.null /\ resp.h.len # 0 THEN resp.h.len ELSE resp.g.blen

PngTypes == {"image/png"}
JpegTypes == {"image/jpeg", "image/jpg", "image/jpeg; charset=binary"}
WebpTypes == {"image/webp"}
HeicTypes == {"image/heic", "image/heif"}

\* The outcome of a fetch by the first check that applies (lines 95-125);
\* thrown is the code of a retrieval that throws instead of responding
FirstCheck(resp, thrown) ==
  IF ~resp.h.null /\ resp.h.status \in {401, 403} THEN [code |-> "FETCH_FORBIDDEN", mime |-> ""]
  ELSE IF resp.g.threw THEN [code |-> thrown, mime |-> ""]
  ELSE IF ~Ok(resp.g.status)
    THEN [code |-> IF resp.g.status \in {401, 403} THEN "FETCH_FORBIDDEN" ELSE "FETCH_FAILED",
          mime |-> ""]
  ELSE IF EffectiveLength(resp) > IMAGE_MAX_BYTES THEN [code |-> "TOO_LARGE", mime |-> ""]
  ELSE IF EffectiveType(resp) \in PngTypes THEN [code |-> "", mime |-> "image/png"]
  ELSE IF EffectiveType(resp) \in JpegTypes THEN [code |-> "", mime |-> "image/jpeg"]
  ELSE IF EffectiveType(resp) \in WebpTypes THEN [code |-> "UNSUPPORTED_WEBP", mime |-> ""]
  ELSE IF EffectiveType(resp) \in HeicTypes THEN [code |-> "UNSUPPORTED_HEIC", mime |-> ""]
  ELSE [code |-> "UNSUPPORTED_TYPE", mime |-> ""]

\* the step is the end of turn k's fetch, with the outcome expected
FetchEndsAs(k, expected) ==
  LET tr == turns'[k]
  IN IF expected.mime = ""
       THEN /\ tr.pc = "tip" /\ tr.code = expected.code /\ tr.stored = 0
            /\ UNCHANGED <<heap, userSessions, nimg>>
       ELSE /\ tr.stored = nimg' /\ nimg' = nimg + 1
            /\ heap'[userSessions'[tr.userPhone]][tr.imageType] =
                 [id |-> nimg', mime |-> expected.mime]

\* C19 as stated, the step: a retrieval that does not succeed is Forbidden
\* on 401/403 and FetchFailed otherwise.
C19_Step ==
  \A k \in Turns :
    turns[k].pc = "fetch" /\ Step(k) =>
      FetchEndsAs(k, FirstCheck(turns'[k].resp, "FETCH_FAILED"))

\* C19 as stated: the outcome of every media fetch is decided by the first
\* check that applies, an unsuccessful retrieval giving Forbidden on 401/403
\* and FetchFailed otherwise.
C19_FirstCheckDecides == [][C19_Step]_vars

\* C19, the step: a fetch ends as the first applicable check says; a
\* retrieval that throws fails the fetch with an error without a code.
C19_StepThrown ==
  \A k \in Turns :
    turns[k].pc = "fetch" /\ Step(k) =>
      FetchEndsAs(k, FirstCheck(turns'[k].resp, ""))

\* C19, the slots: every image in a slot is PNG or JPEG, and the fetch that
\* stored it had a PNG or JPEG effective type and an effective length
\* within the maximum.
C19_Slots ==
  /\ \A i \in DOMAIN heap : \A f \in {"selfie", "clothing"} :
       heap[i][f] # NoImage => heap[i][f].mime \in {"image/png", "image/jpeg"}
  /\ \A k \in Turns :
       turns[k].stored # 0 =>
         /\ EffectiveType(turns[k].resp) \in PngTypes \cup JpegTypes
         /\ EffectiveLength(turns[k].resp) <= IMAGE_MAX_BYTES

\* C19, amended: the outcome of a fetch is decided by the first check that
\* applies: probe status 401/403 gives FETCH_FORBIDDEN whatever the
\* retrieval would do; a retrieval that throws gives an error without a
\* code; a retrieval not ok gives FETCH_FORBIDDEN on 401/403 and
\* FETCH_FAILED otherwise; an effective length above the maximum gives
\* TOO_LARGE; a type neither PNG nor JPEG gives UNSUPPORTED_WEBP, _HEIC or
\* _TYPE; otherwise the image is stored as png or jpeg. Every image in a
\* slot is PNG or JPEG of an effective length within the maximum.
C19_CheckOrder == []C19_Slots /\ [][C19_StepThrown]_vars

\* C19 witness: a WEBP above the maximum was refused as TOO_LARGE, the size
\* check coming before the type check.
C19_Witness ==
  \E k \in Turns :
    /\ turns[k].pc = "tip" /\ turns[k].code = "TOO_LARGE"
    /\ EffectiveType(turns[k].resp) \in WebpTypes
    /\ ~turns[k].resp.g.threw /\ Ok(turns[k].resp.g.status)

\* the turn holds the response of a retrieval that passed lines 95-104: the
\* probe was not forbidden and the retrieval answered with success
Retrieved(tr) ==
  /\ tr.resp # NoResp
  /\ tr.resp.h.status \notin {401, 403}
  /\ ~tr.resp.g.threw /\ Ok(tr.resp.g.status)

\* the probe supplies nothing: it threw, or it came without the two headers
ProbeSilent(resp) == resp.h.null \/ (resp.h.ct = "" /\ resp.h.len = 0)

\* C20, the values: the acceptance checks of a retrieved image use the
\* probe's type when it is non-empty, else the retrieval's, and the probe's
\* length when it is non-zero, else the number of bytes retrieved.
C20_Values ==
  \A k \in Turns :
    Retrieved(turns[k]) =>
      LET resp == turns[k].resp
          type == IF ~resp.h.null /\ resp.h.ct # "" THEN resp.h.ct ELSE resp.g.ct
          n == IF ~resp.h.null /\ resp.h.len # 0 THEN resp.h.len ELSE resp.g.blen
      IN /\ (turns[k].code = "TOO_LARGE") = (n > IMAGE_MAX_BYTES)
         /\ (turns[k].stored # 0) =
              (n <= IMAGE_MAX_BYTES /\ LowerCT(type) \in PngTypes \cup JpegTypes)
         /\ (turns[k].code = "UNSUPPORTED_WEBP") =
              (n <= IMAGE_MAX_BYTES /\ LowerCT(type) \in WebpTypes)

\* C20, the silent probe: a probe that threw or came without headers leaves
\* the outcome to the retrieval's own type and bytes.
C20_SilentProbe ==
  \A k \in Turns :
    Retrieved(turns[k]) /\ ProbeSilent(turns[k].resp) =>
      (turns[k].stored # 0) =
        (/\ turns[k].resp.g.blen <= IMAGE_MAX_BYTES
         /\ LowerCT(turns[k].resp.g.ct) \in PngTypes \cup JpegTypes)

\* C20: the type and the length the acceptance checks use are the probe's
\* when the probe supplies them (non-empty type, non-zero length), else the
\* retrieval's type and the bytes retrieved; a probe that fails or has no
\* headers never fails the fetch; the size limit is applied to the probe's
\* non-zero length whatever the size of the body.
C20_ProbePreferred == C20_Values /\ C20_SilentProbe

\* C20 witness: an image whose probe declares PNG and a length within the
\* maximum was stored, though the retrieval says WEBP and its body is above
\* the maximum.
C20_Witness ==
  \E k \in Turns :
    /\ Retrieved(turns[k]) /\ turns[k].stored # 0
    /\ turns[k].resp.h.ct = "image/png" /\ turns[k].resp.g.ct = "image/webp"
    /\ turns[k].resp.h.len = IMAGE_MAX_BYTES
    /\ turns[k].resp.g.blen > IMAGE_MAX_BYTES

\* the step is turn k's acquiring the lock and building the request
\* (lines 290-301)
Locks(k) == turns'[k].nStream = turns[k].nStream + 1

\* C21, the request: the request built at the lock holds the selfie and the
\* clothing of the user's session at that moment.
C21_RequestAtLock ==
  \A k \in Turns :
    Locks(k) =>
      LET s == heap'[userSessions'[turns'[k].userPhone]]
      IN turns'[k].selfie = s.selfie /\ turns'[k].clothing = s.clothing

\* C21, the generation: while a turn generates, the request keeps its two
\* images, whatever other turns store.
C21_RequestKept ==
  \A k \in Turns :
    Generating(turns[k]) /\ Generating(turns'[k]) =>
      turns'[k].selfie = turns[k].selfie /\ turns'[k].clothing = turns[k].clothing

\* C21, the arrival: an image fetched while a generation of the user is in
\* flight is written into the user's session.
C21_StoredMeanwhile ==
  \A k \in Turns :
    Stored(k) /\ GeneratingFor(turns[k].userPhone) # {} =>
      heap'[userSessions'[turns[k].userPhone]][turns[k].imageType].id = nimg'

\* C21, the end: the end of a generation leaves nothing of what was stored
\* during it.
C21_Discarded ==
  GenerationEnded' => IsEmpty(heap'[userSessions'[returned'.tr.userPhone]])

\* C21: an image that arrives during a generation of its user is stored in
\* the session and leaves the generation alone: the request holds the
\* selfie and the clothing the session held when the lock was acquired, and
\* the reset at the end discards what was stored meanwhile.
C21_InFlightUntouched ==
  [][C21_RequestAtLock /\ C21_RequestKept /\ C21_StoredMeanwhile /\ C21_Discarded]_vars

\* C22, the step: the request built at the lock holds a selfie and a
\* clothing image that are both those of the turn's own session object, the
\* clothing stored after the selfie.
C22_Step ==
  \A k \in Turns :
    Locks(k) =>
      LET tr == turns'[k]
          session == heap'[tr.session]
      IN /\ tr.selfie # NoImage /\ tr.clothing # NoImage
         /\ tr.selfie = session.selfie /\ tr.clothing = session.clothing
         /\ tr.clothing.id > tr.selfie.id

\* C22, at rest: the request of a running generation holds a clothing
\* image stored after its selfie.
C22_Order ==
  \A k \in Turns :
    Generating(turns[k]) =>
      /\ turns[k].selfie # NoImage
      /\ turns[k].clothing.id > turns[k].selfie.id

\* C22: whenever a generation is invoked, in every interleaving, turns with
\* a session reference from before a reset or an expiry included, the
\* clothing passed to the backend was stored after the selfie passed to it,
\* and both were read from one session object.
C22_PairOfOneSession == []C22_Order /\ [][C22_Step]_vars

\* C22 witness: a generation runs on the pair of a session object that is
\* no longer the user's session when the lock is taken.
C22_Witness ==
  \E k \in Turns :
    /\ turns[k].pc = "stream"
    /\ turns[k].session # userSessions[turns[k].userPhone]
    /\ turns[k].clothing.id > turns[k].selfie.id /\ turns[k].selfie.id > 0
    /\ Table(turns[k].userPhone).selfie # turns[k].selfie

\* the first two turns of a run, and no other turn yet
Pair == {1, 2}
OnlyPair == \A k \in Turns \ Pair : turns[k].pc = "idle"

\* turn k holds an image without a label that was classified as a selfie
\* when it arrived (lines 244-252)
UnlabeledSelfie(k) ==
  turns[k].text = NullText /\ turns[k].mediaUrl /\ turns[k].imageType = "selfie"

\* C23, the slot: a store writes the slot that was decided at the arrival,
\* whatever the session holds at the time of the store.
C23_SlotOfArrival ==
  \A k \in Turns :
    Stored(k) =>
      /\ turns'[k].imageType = turns[k].imageType
      /\ heap'[userSessions'[turns[k].userPhone]][turns[k].imageType].id = nimg'

\* C23, the pair: when the first two events of a user are images without a
\* label that both arrived before either was stored, each store leaves the
\* session with the stored image as its selfie and nothing else, and the
\* storing turn goes on to the hint, not to a generation.
C23_PairStep ==
  \A k \in Pair :
    LET j == 3 - k
        u == turns[k].userPhone
    IN /\ OnlyPair /\ Stored(k) /\ UnlabeledSelfie(k)
       /\ \/ turns[j].pc = "fetch" /\ UnlabeledSelfie(j)
          \/ turns[j].pc \in {"guide", "done"} /\ Table(u).selfie # NoImage
       => /\ HasSelfieOnly(heap'[userSessions'[u]])
          /\ heap'[userSessions'[u]].selfie.id = nimg'
          /\ turns'[k].pc = "guide" /\ turns'[k].nStream = 0

\* C23: the slot of an image is decided from the session at the arrival of
\* its event and not again at the store: two images without a label that
\* arrive for a user with an empty session before either is stored are
\* both stored as selfie, the later store replacing the earlier; the
\* session holds a selfie only and no generation starts.
C23_ClassifiedAtArrival == [][C23_SlotOfArrival /\ C23_PairStep]_vars

\* C23 witness: of two images without a label that arrived together on an
\* empty session, the second was stored over the first as the selfie, and
\* its turn is at the hint.
C23_Witness ==
  /\ OnlyPair /\ clock = 0 /\ nimg = 2
  /\ \E k \in Pair :
       /\ turns[k].pc = "guide" /\ UnlabeledSelfie(k) /\ turns[k].stored = 2
       /\ turns[k].nStream = 0
  /\ HasSelfieOnly(Table("u1")) /\ Table("u1").selfie.id = 2

\* turn k, whose locals are tr, named its artifact and is past a write
\* that failed (lines 328-334)
Unsaved(k, tr) ==
  /\ tr.outFile # NoFile /\ tr.pc # "save"
  /\ [name |-> tr.outFile, turn |-> k] \notin files

\* C24, the write: the step that ends a failed write goes on to the first
\* delivery tier with the name of the artifact and leaves the sessions
\* alone.
C24_Step ==
  \A k \in Turns :
    turns[k].pc = "save" /\ Step(k) /\ files' = files =>
      /\ turns'[k].pc = "tier1" /\ turns'[k].outFile = turns[k].outFile
      /\ turns'[k].sends = turns[k].sends
      /\ UNCHANGED <<heap, userSessions>>

\* C24, the delivery: a turn past a failed write is in the delivery chain
\* and has sent no apology.
C24_Delivering ==
  \A k \in Turns :
    Unsaved(k, turns[k]) =>
      /\ turns[k].pc \in {"tier1", "tier2", "tier3"}
      /\ SendsOf(turns[k], "apology") = <<>>
      /\ Len(Delivery(turns[k])) = CASE turns[k].pc = "tier1" -> 0
                                      [] turns[k].pc = "tier2" -> 1
                                      [] OTHER -> 2

\* C24, the end: a turn that returns after a failed write has sent the
\* delivery tiers, the rich image first, up to the first that succeeded, no
\* apology, and has reset the session to EMPTY.
C24_End ==
  returned.turn # 0 /\ Unsaved(returned.turn, returned.tr) =>
    LET d == Delivery(returned.tr)
    IN /\ d # <<>> /\ d[1].kind = "rich"
       /\ d[Len(d)].ok \/ Len(d) = 3
       /\ SendsOf(returned.tr, "apology") = <<>>
       /\ returned.tr.status = 200
       /\ IsEmpty(Table(returned.tr.userPhone))

\* C24: a failure to persist the artifact is swallowed: the delivery chain
\* runs all the same with the reference to the unwritten file and the
\* session is reset to EMPTY; such a failure gives no apology and skips no
\* delivery.
C24_SaveFailureSwallowed == []C24_Delivering /\ []C24_End /\ [][C24_Step]_vars

\* C24 witness: the artifact was not written, the rich image was sent all
\* the same and was delivered, and the turn returned with the session empty.
C24_Witness ==
  /\ returned.turn # 0 /\ Unsaved(returned.turn, returned.tr)
  /\ Len(Delivery(returned.tr)) = 1 /\ Delivery(returned.tr)[1].ok
  /\ IsEmpty(Table(returned.tr.userPhone))

====
